---------------------------- MODULE Spec2Model ----------------------------
(***************************************************************************)
(* Model of kanzo.core.controller: the Controller's phase runner           *)
(* (_run_phase), the deployment executor (run_deployment), run_init,       *)
(* run_cleanup and the draining primitive wait_for_runners.                *)
(*                                                                         *)
(* The controller is single threaded.  Greenlets (tasks) run only while    *)
(* the controller switches into them, so the whole program is one          *)
(* sequential process whose position is pc; one action is one statement    *)
(* (or one loop iteration) of the source, and a switch into a greenlet     *)
(* runs it up to its next yield, its completion or its exception.          *)
(*                                                                         *)
(* Inputs of the environment: which hosts and plugins the controller was   *)
(* built with, which API call the caller makes next, what records a plan   *)
(* step returns, and whether a task yields, completes or raises each time  *)
(* it is resumed.                                                          *)
(***************************************************************************)
EXTENDS Integers, Sequences, FiniteSets, TLC

(***************************************************************************)
(* Bounds of the model.                                                    *)
(***************************************************************************)
\* most (host, manifest) pairs the Plan holds over all plan-phase runs
MaxPairs == 2
\* most records one plan step returns
MaxRecords == 2
\* most hosts plus plugins a controller is built with
MaxLoad == 3
Hosts == {"h1", "h2"}
\* what the plan steps name in their records
RecordHosts == {"h1"}
Markers == {"A", "CD"}
Manifests == {"m"}

(***************************************************************************)
(* Plugins: PluginData (controller.py 22-32, 59-72), only the step lists.  *)
(* A step is named by its func_name.                                       *)
(***************************************************************************)
PluginUniverse ==
    << [name |-> "sql",
        init_steps |-> <<"sql_init">>, prep_steps |-> <<"sql_prep">>,
        plan_steps |-> <<"sql_plan">>, clean_steps |-> <<"sql_clean">>],
       [name |-> "web",
        init_steps |-> <<"web_init">>, prep_steps |-> <<"web_prep">>,
        plan_steps |-> <<"web_plan", "web_net">>, clean_steps |-> <<"web_clean">>] >>

\* the plugin lists a controller may be built with
PluginLists == {SubSeq(PluginUniverse, 1, n) : n \in 0..Len(PluginUniverse)}

Phases == {"init", "prep", "plan", "clean"}

VARIABLES
    drones,      \* self._drones: the hosts a Drone was created for
    plugins,     \* self._plugins: sequence of PluginData
    registered,  \* 'status' in self._callbacks
    plan,        \* self._plan: a dict keyed by strings
    info,        \* self._info: hosts whose discovered facts are recorded
    pc,          \* position of the controller
    call,        \* the API call running (or the last one, when pc = "idle")
    outcome,     \* how the last API call ended: "ok" or the exception raised
    phase,       \* _run_phase's phase argument
    stepIdx,     \* index in _iter_phase(phase) of the step being run
    records,     \* _run_phase's records still to register
    runners,     \* the local set runners
    run,         \* the local run: the greenlet created last
    spawned,     \* hosts the current loop over self._drones has visited
    todo,        \* wait_for_runners: list(runners) not visited yet
    after,       \* where wait_for_runners returns to
    scanIdx,     \* run_deployment: index of the key the scan is at
    tasks,       \* the greenlets of the running call that still exist: id -> state
    events,      \* what the status callback received during this call
    returned,    \* history: the records the last plan step returned
    invoked,     \* history: <<step, host>> -> times the step was called in this call
    requested    \* history: marker -> prerequisites its registered records named

cfgVars == <<drones, plugins>>
planVars == <<plan, requested>>
ctlVars == <<pc, call, outcome, phase, stepIdx>>
locVars == <<records, runners, run, spawned, todo, after, scanIdx>>
vars == <<drones, plugins, registered, plan, info, pc, call, outcome, phase,
          stepIdx, records, runners, run, spawned, todo, after, scanIdx,
          tasks, events, returned, invoked, requested>>

(***************************************************************************)
(* Python dicts as functions; OrderedDict as a sequence of <<key, value>>. *)
(***************************************************************************)
EmptyDict == <<>>

HasKey(d, k) == k \in DOMAIN d

OdKeys(od) == [i \in 1..Len(od) |-> od[i][1]]

OdHas(od, k) == \E i \in 1..Len(od) : od[i][1] = k

OdGet(od, k) == od[CHOOSE i \in 1..Len(od) : od[i][1] = k][2]

\* od.setdefault(k, []).append(x)
OdSetDefaultAppend(od, k, x) ==
    IF OdHas(od, k)
    THEN [i \in 1..Len(od) |->
            IF od[i][1] = k THEN <<k, Append(od[i][2], x)>> ELSE od[i]]
    ELSE Append(od, <<k, <<x>>>>)

RECURSIVE SeqSum(_)
SeqSum(s) == IF s = <<>> THEN 0 ELSE Head(s) + SeqSum(Tail(s))

TotalPairs(p) ==
    SeqSum([i \in 1..Len(p["manifests"]) |-> Len(p["manifests"][i][2])])

RECURSIVE Flatten(_)
Flatten(ss) == IF ss = <<>> THEN <<>> ELSE Head(ss) \o Flatten(Tail(ss))


(***************************************************************************)
(* Controller.__init__ (controller.py 46-103).                             *)
(***************************************************************************)
\* the attributes a Controller instance answers to (methods 105-240 and the
\* fields set in __init__)
ControllerAttrs ==
    {"_iter_phase", "_run_phase", "run_init", "run_deployment", "run_cleanup",
     "register_status_callback", "_callbacks", "_messages", "_tmpdir",
     "_plugin_modules", "_config", "_plugins", "_drones", "_info", "_plan"}

\* self._plan as __init__ builds it (97-103)
InitPlan ==
    ("manifests" :> <<>>) @@ ("dependecy" :> EmptyDict) @@ ("waiting" :> {})
        @@ ("in-progress" :> {}) @@ ("finished" :> {})

\* a variant of _iter_phase that walks the plugins last to first
IterPhaseReversed(ph) ==
    Flatten([i \in 1..Len(plugins) |-> plugins[Len(plugins) + 1 - i][ph \o "_steps"]])

\* a variant of _iter_phase that stops after the first plugin
IterPhaseFirstPlugin(ph) ==
    IF plugins = <<>> THEN <<>> ELSE plugins[1][ph \o "_steps"]

\* _iter_phase (105-108): plugin order, then step order within the plugin
IterPhase(ph) ==
    Flatten([i \in 1..Len(plugins) |-> plugins[i][ph \o "_steps"]])

(***************************************************************************)
(* The records a plan step returns: (host, manifest, marker, prereqs),     *)
(* prereqs being None or a set of markers.                                 *)
(***************************************************************************)
NoPrereqs == [none |-> TRUE, set |-> {}]
Some(S) == [none |-> FALSE, set |-> S]
PrereqOptions == {NoPrereqs, Some({"A"})}

\* prereqs or set()  (139)
OrEmptySet(p) == IF p.none \/ p.set = {} THEN {} ELSE p.set

RecordUniverse ==
    [host : RecordHosts, manifest : Manifests, marker : Markers,
     prereqs : PrereqOptions]

RecordLists == UNION {[1..n -> RecordUniverse] : n \in 0..MaxRecords}

\* a variant of lines 134-137 that forgets the manifests entry
AddRecordWaitingOnly(p, r) ==
    [p EXCEPT !["waiting"] = @ \cup {r.marker}]

\* lines 134-137: waiting.add(marker); manifests.setdefault(marker, []).append(...)
AddRecord(p, r) ==
    [p EXCEPT !["waiting"] = @ \cup {r.marker},
              !["manifests"] = OdSetDefaultAppend(@, r.marker, <<r.host, r.manifest>>)]

\* lines 138-140: dependency.setdefault(marker, set()).update(prereqs or set())
UpdateDependency(p, r) ==
    [p EXCEPT !["dependency"] =
        IF HasKey(@, r.marker)
        THEN [@ EXCEPT ![r.marker] = @ \cup OrEmptySet(r.prereqs)]
        ELSE @ @@ (r.marker :> OrEmptySet(r.prereqs))]

\* history: the prerequisites the registered records of a marker named
Request(q, r) ==
    IF HasKey(q, r.marker)
    THEN [q EXCEPT ![r.marker] = @ \cup OrEmptySet(r.prereqs)]
    ELSE q @@ (r.marker :> OrEmptySet(r.prereqs))

(***************************************************************************)
(* Status events (121, 123, 153, 168, 184, 218, 226, 230).                 *)
(***************************************************************************)
PhaseEvent(ph, status) == <<"phase", ph, status>>
StepEvent(name, status) == <<"step", name, status>>

(***************************************************************************)
(* Greenlets.  A task is identified by <<function name, host>>.  Its state *)
(* is "suspended" (it switched back to its parent and may be resumed) or   *)
(* "done" (it returned); a task that raises ends the call.  A step, a      *)
(* make_build or a deploy may yield any number of times.  _install_puppet  *)
(* (112-118) yields exactly twice: "at115" after drone.init_host(),        *)
(* "at117" after self._info[drone.host] = drone.discover(); resumed from   *)
(* there it runs drone.configure() and returns.                            *)
(***************************************************************************)
Task(name, h) == <<name, h>>

\* a plan step is called once for all hosts (126-130)
PlanCall(name) == <<name, "all">>

\* history: one more call of id
Invoke(inv, id) ==
    IF id \in DOMAIN inv THEN [inv EXCEPT ![id] = @ + 1] ELSE inv @@ (id :> 1)

Suspended(st) == st \in {"suspended", "at115", "at117"}

\* run.dead
Dead(st) == ~Suspended(st)

\* what a switch into a task can end in: st is its state before the switch
\* ("new" for the first switch)
ResumeOutcomes(name, st) ==
    IF name = "_install_puppet"
    THEN (IF st = "at117" THEN {"done", "raise"} ELSE {"yield", "raise"})
    ELSE {"yield", "done", "raise"}

\* the task's state after a switch that did not raise
Resumed(name, st, o) ==
    IF o = "done" THEN "done"
    ELSE IF name # "_install_puppet" THEN "suspended"
    ELSE IF st = "new" THEN "at115" ELSE "at117"

\* a variant of line 116 in which every task that yields records facts
InfoAfterAnyTask(id, st, o) ==
    IF o = "yield" THEN info \cup {id[2]} ELSE info

\* line 116: _install_puppet resumed from line 115 records the discovered facts
InfoAfter(id, st, o) ==
    IF id[1] = "_install_puppet" /\ st = "at115" /\ o = "yield"
    THEN info \cup {id[2]} ELSE info

\* the greenlets left once only refs refer to any: a finished greenlet
\* nothing refers to is freed, a suspended one stays
Live(ts, refs) ==
    LET keep == {id \in DOMAIN ts : id \in refs \/ Suspended(ts[id])}
    IN  [id \in keep |-> ts[id]]

(***************************************************************************)
(* Initial state: a constructed Controller.                                *)
(***************************************************************************)
Init ==
    /\ drones \in SUBSET Hosts
    /\ plugins \in PluginLists
    /\ Cardinality(drones) + Len(plugins) <= MaxLoad
    /\ registered = FALSE
    /\ plan = InitPlan
    /\ info = {}
    /\ pc = "idle"
    /\ call = "none"
    /\ outcome = "none"
    /\ phase = "none"
    /\ stepIdx = 0
    /\ records = <<>>
    /\ runners = {}
    /\ run = {}
    /\ spawned = {}
    /\ todo = {}
    /\ after = "none"
    /\ scanIdx = 0
    /\ tasks = <<>>
    /\ events = <<>>
    /\ returned = <<>>
    /\ invoked = <<>>
    /\ requested = <<>>

\* the locals of a call, dropped when it ends
ResetLocals ==
    /\ stepIdx' = 0
    /\ records' = <<>>
    /\ runners' = {}
    /\ run' = {}
    /\ spawned' = {}
    /\ todo' = {}
    /\ after' = "none"
    /\ scanIdx' = 0

\* the call ends: normally (o = "ok") or with exception o
Return(o) ==
    /\ pc' = "idle"
    /\ outcome' = o
    /\ tasks' = <<>>
    /\ ResetLocals

\* line 121: _run_phase(ph) emits the phase-start event
EnterPhase(ph, evs) ==
    /\ events' = Append(evs, PhaseEvent(ph, "start"))
    /\ phase' = ph
    /\ pc' = "steps"
    /\ outcome' = "running"
    /\ tasks' = <<>>
    /\ ResetLocals

\* register_status_callback (232-240)
RegisterStatusCallback ==
    /\ pc = "idle"
    /\ ~registered
    /\ registered' = TRUE
    /\ UNCHANGED <<cfgVars, planVars, info, ctlVars, locVars, tasks, events, returned, invoked>>

(***************************************************************************)
(* _run_phase (110-168).                                                   *)
(***************************************************************************)
\* the caller calls _run_phase(ph); self._callbacks['status'] raises KeyError
\* when no callback is registered
CallRunPhase(ph) ==
    /\ pc = "idle"
    /\ call' = "_run_phase"
    /\ returned' = <<>>
    /\ invoked' = <<>>
    /\ IF registered
       THEN EnterPhase(ph, <<>>)
       ELSE /\ events' = <<>>
            /\ phase' = ph
            /\ Return("KeyError")
    /\ UNCHANGED <<cfgVars, registered, planVars, info>>

CurrentStep == IterPhase(phase)[stepIdx]

\* 122-123, 142: the next step of a phase other than plan
StepStartHosts ==
    /\ pc = "steps"
    /\ phase # "plan"
    /\ stepIdx < Len(IterPhase(phase))
    /\ stepIdx' = stepIdx + 1
    /\ events' = Append(events, StepEvent(IterPhase(phase)[stepIdx + 1], "start"))
    /\ runners' = {}
    /\ tasks' = Live(tasks, run)
    /\ spawned' = {}
    /\ pc' = "spawn"
    /\ UNCHANGED <<cfgVars, registered, planVars, info, call, outcome, phase,
                   records, run, todo, after, scanIdx, returned, invoked>>

\* 122-131: the next plan step is called and returns recs
StepStartPlan(recs) ==
    /\ pc = "steps"
    /\ phase = "plan"
    /\ stepIdx < Len(IterPhase(phase))
    /\ stepIdx' = stepIdx + 1
    /\ events' = Append(events, StepEvent(IterPhase(phase)[stepIdx + 1], "start"))
    /\ records' = recs
    /\ returned' = recs
    /\ invoked' = Invoke(invoked, PlanCall(IterPhase(phase)[stepIdx + 1]))
    /\ pc' = "records"
    /\ UNCHANGED <<cfgVars, registered, planVars, info, call, outcome, phase,
                   runners, run, spawned, todo, after, scanIdx, tasks>>

\* 126: the plan step raises
PlanStepRaises ==
    /\ pc = "steps"
    /\ phase = "plan"
    /\ stepIdx < Len(IterPhase(phase))
    /\ events' = Append(events, StepEvent(IterPhase(phase)[stepIdx + 1], "start"))
    /\ invoked' = Invoke(invoked, PlanCall(IterPhase(phase)[stepIdx + 1]))
    /\ Return("StepError")
    /\ UNCHANGED <<cfgVars, registered, planVars, info, call, phase, returned>>

\* 132-140: one record
RegisterRecord ==
    /\ pc = "records"
    /\ records # <<>>
    /\ LET r == Head(records) IN
       IF r.host \notin drones
       THEN \* 133: self._drones[host]
            /\ Return("KeyError")
            /\ UNCHANGED <<planVars, call, phase>>
       ELSE IF ~HasKey(plan, "dependency")
       THEN \* 138: self._plan['dependency']
            /\ plan' = AddRecord(plan, r)
            /\ requested' = Request(requested, r)
            /\ Return("KeyError")
            /\ UNCHANGED <<call, phase>>
       ELSE /\ plan' = UpdateDependency(AddRecord(plan, r), r)
            /\ requested' = Request(requested, r)
            /\ records' = Tail(records)
            /\ UNCHANGED <<ctlVars, runners, run, spawned, todo, after, scanIdx, tasks>>
    /\ UNCHANGED <<cfgVars, registered, info, events, returned, invoked>>

\* 132: no record is left
RecordsDone ==
    /\ pc = "records"
    /\ records = <<>>
    /\ pc' = "step_end"
    /\ UNCHANGED <<cfgVars, registered, planVars, info, call, outcome, phase, stepIdx,
                   locVars, tasks, events, returned, invoked>>

\* 143-151: a greenlet for the step on host h, switched into at once
Spawn(h, o) ==
    /\ pc = "spawn"
    /\ h \in drones \ spawned
    /\ o \in ResumeOutcomes(CurrentStep, "new")
    /\ IF o = "raise"
       THEN Return("StepError")
       ELSE /\ runners' = runners \cup {Task(CurrentStep, h)}
            /\ run' = {Task(CurrentStep, h)}
            /\ tasks' = Live((Task(CurrentStep, h) :> Resumed(CurrentStep, "new", o)) @@ tasks,
                             runners \cup {Task(CurrentStep, h)})
            /\ spawned' = spawned \cup {h}
            /\ UNCHANGED <<pc, outcome, stepIdx, records, todo, after, scanIdx>>
    /\ invoked' = Invoke(invoked, Task(CurrentStep, h))
    /\ UNCHANGED <<cfgVars, registered, planVars, info, call, phase, events, returned>>

\* 152: wait_for_runners(runners) is called: list(runners)
SpawnDone ==
    /\ pc = "spawn"
    /\ spawned = drones
    /\ todo' = runners
    /\ after' = "step_end"
    /\ pc' = "wait"
    /\ UNCHANGED <<cfgVars, registered, planVars, info, call, outcome, phase, stepIdx,
                   records, runners, run, spawned, scanIdx, tasks, events, returned, invoked>>

\* 153: the step-end event
StepEnd ==
    /\ pc = "step_end"
    /\ events' = Append(events, StepEvent(CurrentStep, "end"))
    /\ pc' = "steps"
    /\ UNCHANGED <<cfgVars, registered, planVars, info, call, outcome, phase, stepIdx,
                   locVars, tasks, returned, invoked>>

\* 155: the steps are over
PostRunStart ==
    /\ pc = "steps"
    /\ stepIdx = Len(IterPhase(phase))
    /\ runners' = {}
    /\ tasks' = Live(tasks, run)
    /\ spawned' = {}
    /\ pc' = "post"
    /\ UNCHANGED <<cfgVars, registered, planVars, info, call, outcome, phase, stepIdx,
                   records, run, todo, after, scanIdx, events, returned, invoked>>

PostAction == IF phase = "init" THEN "_install_puppet" ELSE "make_build"

\* 156-166: the post-run greenlet of host h, switched into at once
PostSpawn(h, o) ==
    /\ pc = "post"
    /\ phase \in {"init", "plan"}
    /\ h \in drones \ spawned
    /\ o \in ResumeOutcomes(PostAction, "new")
    /\ IF o = "raise"
       THEN Return("StepError")
       ELSE /\ runners' = runners \cup {Task(PostAction, h)}
            /\ run' = {Task(PostAction, h)}
            /\ tasks' = Live((Task(PostAction, h) :> Resumed(PostAction, "new", o)) @@ tasks,
                             runners \cup {Task(PostAction, h)})
            /\ spawned' = spawned \cup {h}
            /\ UNCHANGED <<pc, outcome, stepIdx, records, todo, after, scanIdx>>
    /\ UNCHANGED <<cfgVars, registered, planVars, info, call, phase, events, returned, invoked>>

\* 163-164, 167: the loop is over (or left by break) and wait_for_runners is called
PostSpawnDone ==
    /\ pc = "post"
    /\ spawned = drones \/ phase \notin {"init", "plan"}
    /\ todo' = runners
    /\ after' = "phase_end"
    /\ pc' = "wait"
    /\ UNCHANGED <<cfgVars, registered, planVars, info, call, outcome, phase, stepIdx,
                   records, runners, run, spawned, scanIdx, tasks, events, returned, invoked>>

(***************************************************************************)
(* wait_for_runners (35-41): ONE pass over list(runners).                  *)
(***************************************************************************)
\* 38-39: a dead runner is removed
WaitRemove(id) ==
    /\ pc = "wait"
    /\ id \in todo
    /\ Dead(tasks[id])
    /\ runners' = runners \ {id}
    /\ todo' = todo \ {id}
    /\ tasks' = Live(tasks, (runners \ {id}) \cup run)
    /\ UNCHANGED <<cfgVars, registered, planVars, info, ctlVars, records, run, spawned,
                   after, scanIdx, events, returned, invoked>>

\* 40-41: a live runner is switched into, once
WaitSwitch(id, o) ==
    /\ pc = "wait"
    /\ id \in todo
    /\ ~Dead(tasks[id])
    /\ o \in ResumeOutcomes(id[1], tasks[id])
    /\ info' = InfoAfter(id, tasks[id], o)
    /\ IF o = "raise"
       THEN Return("StepError")
       ELSE /\ tasks' = [tasks EXCEPT ![id] = Resumed(id[1], @, o)]
            /\ todo' = todo \ {id}
            /\ UNCHANGED <<pc, outcome, stepIdx, records, runners, run, spawned, after,
                           scanIdx>>
    /\ UNCHANGED <<cfgVars, registered, planVars, call, phase, events, returned, invoked>>

\* the for loop of wait_for_runners is over: it returns
WaitReturn ==
    /\ pc = "wait"
    /\ todo = {}
    /\ pc' = after
    /\ UNCHANGED <<cfgVars, registered, planVars, info, call, outcome, phase, stepIdx,
                   records, runners, run, spawned, todo, after, scanIdx, tasks, events,
                   returned, invoked>>

\* a suspended greenlet no variable refers to any more: the collector throws
\* GreenletExit into it and frees it (at once under reference counting,
\* later or never under another collector); it never runs to completion
Collect(id) ==
    /\ pc # "idle"
    /\ id \in DOMAIN tasks
    /\ Suspended(tasks[id])
    /\ id \notin runners \cup run
    /\ tasks' = [x \in DOMAIN tasks \ {id} |-> tasks[x]]
    /\ UNCHANGED <<cfgVars, registered, planVars, info, ctlVars, locVars, events, returned, invoked>>

(***************************************************************************)
(* run_init (170-180) and run_cleanup (220-230) call self.run_phase, which *)
(* the class does not define (it defines _run_phase).                      *)
(***************************************************************************)
\* 168 and what the caller of _run_phase does next
PhaseEnd ==
    /\ pc = "phase_end"
    /\ CASE call = "run_init" /\ phase = "init" ->
              EnterPhase("prep", Append(events, PhaseEvent(phase, "end")))
         [] call = "run_init" /\ phase = "prep" ->
              EnterPhase("plan", Append(events, PhaseEvent(phase, "end")))
         [] call = "run_cleanup" ->
              \* 228-230: drone.clean() for every drone, then the end event
              /\ events' = events \o <<PhaseEvent(phase, "end"),
                                       PhaseEvent("cleanuo", "end")>>
              /\ Return("ok")
              /\ UNCHANGED phase
         [] OTHER ->
              /\ events' = Append(events, PhaseEvent(phase, "end"))
              /\ Return("ok")
              /\ UNCHANGED phase
    /\ UNCHANGED <<cfgVars, registered, planVars, info, call, returned, invoked>>

\* run_init: line 178 is self.run_phase('init', ...)
CallRunInit ==
    /\ pc = "idle"
    /\ call' = "run_init"
    /\ returned' = <<>>
    /\ invoked' = <<>>
    /\ IF "run_phase" \notin ControllerAttrs
       THEN /\ events' = <<>>
            /\ Return("AttributeError")
            /\ UNCHANGED phase
       ELSE IF registered
       THEN EnterPhase("init", <<>>)
       ELSE /\ events' = <<>>
            /\ Return("KeyError")
            /\ UNCHANGED phase
    /\ UNCHANGED <<cfgVars, registered, planVars, info>>

\* run_cleanup: line 226 emits the start event, line 227 is self.run_phase('clean')
CallRunCleanup ==
    /\ pc = "idle"
    /\ call' = "run_cleanup"
    /\ returned' = <<>>
    /\ invoked' = <<>>
    /\ IF ~registered
       THEN /\ events' = <<>>
            /\ Return("KeyError")
            /\ UNCHANGED phase
       ELSE IF "run_phase" \notin ControllerAttrs
       THEN /\ events' = <<PhaseEvent("cleanup", "start")>>
            /\ Return("AttributeError")
            /\ UNCHANGED phase
       ELSE EnterPhase("clean", <<PhaseEvent("cleanup", "start")>>)
    /\ UNCHANGED <<cfgVars, registered, planVars, info>>

(***************************************************************************)
(* run_deployment (182-218).                                               *)
(***************************************************************************)
\* iterating a marker (a string) gives its characters
Chars(m) == IF m = "CD" THEN <<"C", "D">> ELSE <<m>>

\* 184-185
CallRunDeployment ==
    /\ pc = "idle"
    /\ call' = "run_deployment"
    /\ returned' = <<>>
    /\ invoked' = <<>>
    /\ IF registered
       THEN /\ events' = <<PhaseEvent("deployment", "start")>>
            /\ pc' = "deploy_while"
            /\ outcome' = "running"
            /\ tasks' = <<>>
            /\ ResetLocals
       ELSE /\ events' = <<>>
            /\ Return("KeyError")
    /\ UNCHANGED <<cfgVars, registered, planVars, info, phase>>

\* 186 and 218: the while test
DeployWhile ==
    /\ pc = "deploy_while"
    /\ IF plan["waiting"] # {} \/ plan["in-progress"] # {}
       THEN /\ pc' = "deploy_scan"
            /\ scanIdx' = 1
            /\ UNCHANGED <<outcome, stepIdx, records, runners, run, spawned, todo, after,
                           events, tasks>>
       ELSE /\ events' = Append(events, PhaseEvent("deployment", "end"))
            /\ Return("ok")
    /\ UNCHANGED <<cfgVars, registered, planVars, info, call, phase, returned, invoked>>

\* 207-208: remove from waiting, add to in-progress
StartMarker(p, marker) ==
    [p EXCEPT !["waiting"] = @ \ {marker}, !["in-progress"] = @ \cup {marker}]

\* 188-209: one iteration of the for loop, over the KEYS of manifests.  The
\* key is unpacked into (marker, manifests); a key that is not two items long
\* raises ValueError.  A two-character key gives marker and manifests one
\* character each, so line 209, which unpacks each item of manifests into
\* (host, manifest), raises ValueError; lines 210-217 are never reached.
DeployScan ==
    /\ pc = "deploy_scan"
    /\ IF scanIdx > Len(plan["manifests"])
       THEN /\ pc' = "deploy_while"
            /\ UNCHANGED <<plan, outcome, stepIdx, records, runners, run, spawned, todo,
                           after, scanIdx, tasks>>
       ELSE LET key == OdKeys(plan["manifests"])[scanIdx]
                marker == Chars(key)[1]
            IN  IF Len(Chars(key)) # 2
                THEN /\ Return("ValueError")                    \* 188
                     /\ UNCHANGED plan
                ELSE IF marker \in plan["finished"]
                THEN /\ scanIdx' = scanIdx + 1                  \* 190-191
                     /\ UNCHANGED <<plan, pc, outcome, stepIdx, records, runners, run,
                                    spawned, todo, after, tasks>>
                ELSE IF ~HasKey(plan, "dependency")
                THEN /\ Return("KeyError")                      \* 193
                     /\ UNCHANGED plan
                ELSE IF ~HasKey(plan["dependency"], marker)
                THEN /\ Return("KeyError")                      \* 193
                     /\ UNCHANGED plan
                ELSE IF plan["dependency"][marker] \ plan["finished"] # {}
                THEN /\ scanIdx' = scanIdx + 1                  \* 194-200
                     /\ UNCHANGED <<plan, pc, outcome, stepIdx, records, runners, run,
                                    spawned, todo, after, tasks>>
                ELSE IF marker \notin plan["waiting"]
                THEN /\ Return("KeyError")                      \* 207
                     /\ UNCHANGED plan
                ELSE /\ plan' = StartMarker(plan, marker)       \* 207-208
                     /\ Return("ValueError")                    \* 209
    /\ UNCHANGED <<cfgVars, registered, requested, info, call, phase, events, returned, invoked>>

(***************************************************************************)
(* The caller makes any call when no call is running.                      *)
(***************************************************************************)
Next ==
    \/ RegisterStatusCallback
    \/ \E ph \in Phases : CallRunPhase(ph)
    \/ StepStartHosts
    \/ \E recs \in (IF TotalPairs(plan) < MaxPairs THEN RecordLists ELSE {<<>>}) :
          StepStartPlan(recs)
    \/ PlanStepRaises
    \/ RegisterRecord
    \/ RecordsDone
    \/ \E h \in Hosts, o \in {"yield", "done", "raise"} : Spawn(h, o)
    \/ SpawnDone
    \/ StepEnd
    \/ PostRunStart
    \/ \E h \in Hosts, o \in {"yield", "done", "raise"} : PostSpawn(h, o)
    \/ PostSpawnDone
    \/ \E id \in DOMAIN tasks : WaitRemove(id)
    \/ \E id \in DOMAIN tasks, o \in {"yield", "done", "raise"} : WaitSwitch(id, o)
    \/ WaitReturn
    \/ \E id \in DOMAIN tasks : Collect(id)
    \/ PhaseEnd
    \/ CallRunInit
    \/ CallRunCleanup
    \/ CallRunDeployment
    \/ DeployWhile
    \/ DeployScan

Spec == Init /\ [][Next]_vars

(***************************************************************************)
(* Properties of the Plan.                                                 *)
(***************************************************************************)
ManifestKeys == {plan["manifests"][i][1] : i \in 1..Len(plan["manifests"])}

IsPrefix(s, t) == Len(s) <= Len(t) /\ s = SubSeq(t, 1, Len(s))

IsSuffix(s, t) == Len(s) <= Len(t) /\ s = SubSeq(t, Len(t) - Len(s) + 1, Len(t))

\* a run_deployment call that got past line 184 has ended
DeploymentEnded == pc = "idle" /\ call = "run_deployment" /\ events # <<>>

\* the markers that can reach finished when every deploy task completes:
\* the least set closed under "all the prerequisites named for it are in"
RECURSIVE CanFinish(_, _)
CanFinish(q, S) ==
    LET T == {m \in DOMAIN q : q[m] \subseteq S}
    IN  IF T = S THEN S ELSE CanFinish(q, T)

Finishable == CanFinish(requested, {})

\* C1: in every reachable state the sets waiting, in-progress and finished
\* are pairwise disjoint and their union is the set of marker keys of
\* manifests
C1_PlanPartition ==
    /\ plan["waiting"] \cap plan["in-progress"] = {}
    /\ plan["waiting"] \cap plan["finished"] = {}
    /\ plan["in-progress"] \cap plan["finished"] = {}
    /\ plan["waiting"] \cup plan["in-progress"] \cup plan["finished"] = ManifestKeys

\* two plan-phase runs registered one record each and run_deployment then
\* ran on that Plan
C1_TwoMarkersPlanned ==
    /\ DeploymentEnded
    /\ ManifestKeys = {"A", "CD"}
    /\ plan["waiting"] = {"A", "CD"}

\* C3: when run_deployment runs on a Plan whose waiting markers all have a
\* prerequisite that can never reach finished (a cycle, a self-dependency or
\* a marker that is no key of manifests), the call ends reporting a
\* configuration error
C3_DeadlockReported ==
    (DeploymentEnded /\ plan["waiting"] # {} /\ plan["waiting"] \cap Finishable = {})
        => outcome = "ConfigurationError"

\* C6: every marker the plan phase registered moves from waiting through
\* in-progress to finished: once a run_deployment call has ended without a
\* task failing, no registered marker is still waiting
C6_MarkersLeaveWaiting ==
    (DeploymentEnded /\ outcome # "StepError" /\ Finishable = ManifestKeys)
        => plan["waiting"] = {}

\* C7: when the dependency graph is acyclic, every prerequisite is a key of
\* manifests and no deploy task fails, run_deployment returns normally with
\* waiting and in-progress empty and finished equal to the keys of manifests
C7_DeploymentCompletes ==
    (DeploymentEnded /\ outcome # "StepError" /\ Finishable = ManifestKeys)
        => /\ outcome = "ok"
           /\ plan["in-progress"] = {}
           /\ plan["finished"] = ManifestKeys

\* C8: two markers with no prerequisites are both started by run_deployment
\* (so that both can have alive deploy tasks at once): a run_deployment call
\* on a Plan holding both does not end, unless a task failed, with either of
\* them never started
C8_IndependentMarkersStarted ==
    (/\ DeploymentEnded
     /\ outcome # "StepError"
     /\ DOMAIN requested = {"A", "CD"}
     /\ requested["A"] = {}
     /\ requested["CD"] = {})
        => {"A", "CD"} \subseteq plan["in-progress"] \cup plan["finished"]

(***************************************************************************)
(* Properties of the phase runner.                                         *)
(***************************************************************************)
\* registration order: plugin order, then step order within the plugin
RegistrationOrder(ph) ==
    LET upTo[n \in 0..Len(plugins)] ==
            IF n = 0 THEN <<>> ELSE upTo[n - 1] \o plugins[n][ph \o "_steps"]
    IN  upTo[Len(plugins)]

\* the events of a whole phase whose steps are names
ExpectedEvents(ph, names) ==
    <<<<"phase", ph, "start">>>>
        \o [i \in 1..2 * Len(names) |->
                <<"step", names[(i + 1) \div 2], IF i % 2 = 1 THEN "start" ELSE "end">>]
        \o <<<<"phase", ph, "end">>>>

\* the position of a step in the phase being run (0 for a post-run action)
StepPos(name) ==
    LET names == RegistrationOrder(phase)
    IN  IF \E k \in 1..Len(names) : names[k] = name
        THEN CHOOSE k \in 1..Len(names) : names[k] = name
        ELSE 0

\* the names of the steps started so far, from the step-start events
StartedSteps ==
    LET starts == SelectSeq(events, LAMBDA e : e[1] = "step" /\ e[3] = "start")
    IN  [i \in 1..Len(starts) |-> starts[i][2]]

\* C5: in a phase other than plan the steps are started in registration
\* order, and while an invocation of a step is alive no invocation of a
\* later step exists, however often the invocation yields
C5_StepsNotInterleaved ==
    (call = "_run_phase" /\ phase \in Phases \ {"plan"}) =>
        /\ IsPrefix(StartedSteps, RegistrationOrder(phase))
        /\ \A a, b \in DOMAIN tasks :
              (0 < StepPos(a[1]) /\ StepPos(a[1]) < StepPos(b[1])) => Dead(tasks[a])

\* the (host, manifest) pairs of marker m in recs, in the order of recs
PairsOf(recs, m) ==
    LET mine == SelectSeq(recs, LAMBDA r : r.marker = m)
    IN  [i \in 1..Len(mine) |-> <<mine[i].host, mine[i].manifest>>]

PrereqsOf(recs, m) ==
    UNION {OrEmptySet(recs[i].prereqs) : i \in {j \in 1..Len(recs) : recs[j].marker = m}}

\* C9: after a plan phase whose last step returned records for known hosts,
\* every record's marker is in waiting, manifests[marker] ends with the
\* marker's (host, manifest) pairs in the order returned, and the Plan has a
\* dependency map (the one run_deployment reads) holding the union of the
\* marker's prerequisites
C9_PlanRecorded ==
    (/\ pc = "idle"
     /\ call = "_run_phase"
     /\ phase = "plan"
     /\ outcome # "StepError"
     /\ returned # <<>>
     /\ \A i \in 1..Len(returned) : returned[i].host \in drones)
        => \A i \in 1..Len(returned) :
              LET m == returned[i].marker IN
              /\ m \in plan["waiting"]
              /\ OdHas(plan["manifests"], m)
              /\ IsSuffix(PairsOf(returned, m), OdGet(plan["manifests"], m))
              /\ HasKey(plan, "dependency")
              /\ HasKey(plan["dependency"], m)
              /\ PrereqsOf(returned, m) \subseteq plan["dependency"][m]

\* C10: the status callback of a _run_phase call receives the phase-start
\* event, then for each step in registration order its step-start event
\* followed by its step-end event, then the phase-end event; the events
\* received so far are an initial part of that sequence, and all of it once
\* the call has returned
C10_EventOrder ==
    call = "_run_phase" =>
        /\ IsPrefix(events, ExpectedEvents(phase, RegistrationOrder(phase)))
        /\ (pc = "idle" /\ outcome = "ok")
              => events = ExpectedEvents(phase, RegistrationOrder(phase))

\* a single-step init phase on one host has returned
C10_SingleStepInit ==
    /\ pc = "idle"
    /\ call = "_run_phase"
    /\ outcome = "ok"
    /\ drones = {"h1"}
    /\ Len(plugins) = 1
    /\ events = << <<"phase", "init", "start">>, <<"step", "sql_init", "start">>,
                   <<"step", "sql_init", "end">>, <<"phase", "init", "end">> >>

(***************************************************************************)
(* Properties of the post-run, of run_init and of wait_for_runners.        *)
(***************************************************************************)
\* C11: when the init phase is about to emit its phase-end event, the
\* post-action of every host has run to completion: init_host, then discover
\* with its result recorded in self._info for the host, then configure
C11_PostActionCompleted ==
    (call = "_run_phase" /\ phase = "init" /\ pc = "phase_end") =>
        \A h \in drones :
            /\ h \in info
            /\ Task("_install_puppet", h) \in DOMAIN tasks
            /\ tasks[Task("_install_puppet", h)] = "done"

\* the phase events among the status events received
PhaseEvents == SelectSeq(events, LAMBDA e : e[1] = "phase")

\* C12: a run_init call in which no step fails runs the phases init, prep
\* and plan in that order, each ending before the next starts, and a
\* run_cleanup call in which no step fails runs the clean phase and returns
C12_PhasesInOrder ==
    /\ (pc = "idle" /\ call = "run_init" /\ outcome \notin {"StepError", "KeyError"})
          => /\ outcome = "ok"
             /\ PhaseEvents = << <<"phase", "init", "start">>, <<"phase", "init", "end">>,
                                 <<"phase", "prep", "start">>, <<"phase", "prep", "end">>,
                                 <<"phase", "plan", "start">>, <<"phase", "plan", "end">> >>
    /\ (pc = "idle" /\ call = "run_cleanup" /\ outcome \notin {"StepError", "KeyError"})
          => /\ outcome = "ok"
             /\ <<"phase", "clean", "end">> \in {events[i] : i \in 1..Len(events)}

\* C13: when wait_for_runners returns, every task of the set it was given
\* is dead and the set is empty
C13_RunnersDrained ==
    (pc = "wait" /\ todo = {}) =>
        /\ runners = {}
        /\ \A id \in DOMAIN tasks : Dead(tasks[id])

(***************************************************************************)
(* Properties of the step invocations, the frame and the event pairing.    *)
(***************************************************************************)
\* the calls one whole run of phase ph makes: each step once per host, a
\* plan step once for all hosts
ExpectedCalls(ph) ==
    LET names == RegistrationOrder(ph)
        steps == {names[k] : k \in 1..Len(names)}
    IN  IF ph = "plan"
        THEN {<<n, "all">> : n \in steps}
        ELSE {<<n, h>> : n \in steps, h \in drones}

\* C17: in one run of a phase no step is invoked more than once for a host,
\* and when the run returns each step of a phase other than plan has been
\* invoked exactly once per host and each step of the plan phase exactly
\* once in total
C17_StepInvokedOnce ==
    call = "_run_phase" =>
        /\ \A id \in DOMAIN invoked : invoked[id] = 1
        /\ DOMAIN invoked \subseteq ExpectedCalls(phase)
        /\ (pc = "idle" /\ outcome = "ok") => DOMAIN invoked = ExpectedCalls(phase)

\* an init phase on two hosts has returned, its step invoked on both
C17_TwoHostsInit ==
    /\ pc = "idle"
    /\ call = "_run_phase"
    /\ outcome = "ok"
    /\ phase = "init"
    /\ drones = {"h1", "h2"}
    /\ DOMAIN invoked = {<<"sql_init", "h1">>, <<"sql_init", "h2">>}

\* a plan phase with three steps has returned on one host, each step invoked once
C17_PlanStepsOnce ==
    /\ pc = "idle"
    /\ call = "_run_phase"
    /\ outcome = "ok"
    /\ phase = "plan"
    /\ Cardinality(drones) = 1
    /\ DOMAIN invoked = {<<"sql_plan", "all">>, <<"web_plan", "all">>, <<"web_net", "all">>}

\* C18, the frame: the Plan changes only in the plan phase and in
\* run_deployment, and self._info changes only in the post-run of the init
\* phase, by the _install_puppet of the host written, once in its run
C18_FrameStep ==
    /\ plan' # plan =>
          \/ call = "_run_phase" /\ phase = "plan"
          \/ call = "run_deployment"
    /\ info' # info =>
          /\ call = "_run_phase" /\ phase = "init"
          /\ pc = "wait" /\ after = "phase_end"
          /\ \E h \in drones :
                /\ info' = info \cup {h}
                /\ tasks[Task("_install_puppet", h)] = "at115"
                /\ tasks'[Task("_install_puppet", h)] = "at117"

\* C18: the Plan is left unchanged by the init, prep and clean phases;
\* self._info is written by the init post-action only, once per host, so that
\* every host has its entry when the init phase returns; the prep and plan
\* phases, run_deployment and run_cleanup leave it unchanged
C18_PlanAndInfoFrame ==
    /\ [][C18_FrameStep]_vars
    /\ []((pc = "idle" /\ call = "_run_phase" /\ phase = "init" /\ outcome = "ok")
             => drones \subseteq info)

\* after an init phase recorded the facts of both hosts, a prep phase has
\* run on them and returned, the Plan and self._info as they were
C18_PrepAfterInit ==
    /\ pc = "idle"
    /\ call = "_run_phase"
    /\ phase = "prep"
    /\ outcome = "ok"
    /\ drones = {"h1", "h2"}
    /\ info = {"h1", "h2"}
    /\ DOMAIN invoked = {<<"sql_prep", "h1">>, <<"sql_prep", "h2">>}
    /\ plan = InitPlan

\* every end event closes the start event opened last, of the same unit type
\* and unit name, and no start event is left open: open is the stack of the
\* units started and not ended yet
RECURSIVE Nested(_, _)
Nested(evs, open) ==
    IF evs = <<>> THEN open = <<>>
    ELSE LET e == Head(evs) IN
         IF e[3] = "start"
         THEN Nested(Tail(evs), <<<<e[1], e[2]>>>> \o open)
         ELSE /\ open # <<>>
              /\ Head(open) = <<e[1], e[2]>>
              /\ Nested(Tail(evs), Tail(open))

\* the status events of a call that returned are paired and nested
ReturnedPaired == (pc = "idle" /\ outcome = "ok") => Nested(events, <<>>)

=============================================================================
